---- MODULE Spec2Model ----
(***************************************************************************)
(* Model of scripts/compile_binary_dictionaries.py: parse_words reads a    *)
(* word list into a dict, build_trie inserts the dict's entries into a     *)
(* trie and lays the nodes out breadth-first, write_bin serialises the     *)
(* node list into 10-byte records.                                         *)
(*                                                                         *)
(* Characters are their code points (ord), strings are sequences of code   *)
(* points, a dict is a sequence of entries in insertion order (the order   *)
(* Python iterates it in), a TrieNode reference is the node's index in     *)
(* the arena `trie` (creation order, the root is 1) and None is 0.         *)
(***************************************************************************)
EXTENDS Integers, Sequences, FiniteSets, TLC

VARIABLES
    pc,              \* where compile_language stands
    err,             \* the exception that ended it ("" while none)
    lines,           \* parse_words: the lines of the file not yet read
    count,           \* parse_words: count
    words,           \* the word table: parse_words' result, build_trie's argument
    wordIdx,         \* build_trie: position of `for word, freq in words.items()`
    trie,            \* the TrieNode objects
    nodes,           \* build_trie: nodes (the list it returns)
    queue,           \* build_trie: queue
    current_offset,  \* build_trie: current_offset
    out,             \* write_bin: the bytes written to out_file
    wi,              \* write_bin: position of `for node in nodes`
    limit            \* the value of MAX_OFFSET in force for this run

vars == <<pc, err, lines, count, words, wordIdx, trie, nodes, queue,
          current_offset, out, wi, limit>>

----------------------------------------------------------------------------
(* Program constants *)

NODE_SIZE == 10

MAX_OFFSET == 16777215

(* Bounds of the model *)

\* A reduced value of MAX_OFFSET: a run takes either the source's value or
\* this one, so that the capacity branch of build_trie is reached by a trie
\* of a few nodes instead of 1.6 million.
SmallMaxOffset == 40

\* Largest number of entries of a word table handed to build_trie directly.
MaxWords == 3

\* Largest number of lines of a word list file.
MaxLines == 3

\* parse_words' max_words parameter (50000 by default).
max_words == 2

None == 0

----------------------------------------------------------------------------
(* Input pools *)

\* "", "^", "ca", "can", "car", "cat" and "c" followed by U+10000.
EntryPool ==
    { [word |-> <<>>, freq |-> 5],
      [word |-> <<94>>, freq |-> 1],
      [word |-> <<99, 97>>, freq |-> 0],
      [word |-> <<99, 97>>, freq |-> 20],
      [word |-> <<99, 97, 110>>, freq |-> 10],
      [word |-> <<99, 97, 114>>, freq |-> 30],
      [word |-> <<99, 97, 114>>, freq |-> 255],
      [word |-> <<99, 97, 116>>, freq |-> 50],
      [word |-> <<99, 97, 116>>, freq |-> 256],
      [word |-> <<99, 65536>>, freq |-> 3] }

DistinctKeys(d) ==
    \A i, j \in 1..Len(d) : d[i].word = d[j].word => i = j

\* The dicts of at most MaxWords entries, in every insertion order.
Tables ==
    { d \in UNION { [1..n -> EntryPool] : n \in 0..MaxWords } : DistinctKeys(d) }

\* "cat 50", "car\t30", "can,10", "can, 9999", "ca", "^a -5", "c<U+10000> 0",
\* "# x", "", "," and "ca <superscript two>".
LinePool ==
    { <<99, 97, 116, 32, 53, 48>>,
      <<99, 97, 114, 9, 51, 48>>,
      <<99, 97, 110, 44, 49, 48>>,
      <<99, 97, 110, 44, 32, 57, 57, 57, 57>>,
      <<99, 97>>,
      <<94, 97, 32, 45, 53>>,
      <<99, 65536, 32, 48>>,
      <<35, 32, 120>>,
      <<>>,
      <<44>>,
      <<99, 97, 32, 178>> }

Files == UNION { [1..n -> LinePool] : n \in 0..MaxLines }

----------------------------------------------------------------------------
(* TrieNode *)

TrieNode(char, parent) ==
    [char |-> char, freq |-> 0, children |-> <<>>, offset |-> 0,
     first_child |-> None, next_sibling |-> None, parent |-> parent]

----------------------------------------------------------------------------
(* parse_words *)

IsSpace(c) == c \in {32, 9, 10, 13}

RECURSIVE LStrip(_)
LStrip(s) == IF s # <<>> /\ IsSpace(Head(s)) THEN LStrip(Tail(s)) ELSE s

RECURSIVE RStrip(_)
RStrip(s) ==
    IF s # <<>> /\ IsSpace(s[Len(s)]) THEN RStrip(SubSeq(s, 1, Len(s) - 1)) ELSE s

\* raw.strip()
Strip(s) == RStrip(LStrip(s))

\* line.replace("\t", " ").replace(",", " ")
ReplaceSeps(s) == [i \in 1..Len(s) |-> IF s[i] \in {9, 44} THEN 32 ELSE s[i]]

\* str.split(): the maximal runs of non-whitespace characters
RECURSIVE SplitFrom(_, _, _)
SplitFrom(s, cur, acc) ==
    IF s = <<>> THEN (IF cur = <<>> THEN acc ELSE Append(acc, cur))
    ELSE IF IsSpace(Head(s))
         THEN SplitFrom(Tail(s), <<>>, IF cur = <<>> THEN acc ELSE Append(acc, cur))
         ELSE SplitFrom(Tail(s), Append(cur, Head(s)), acc)

Split(s) == SplitFrom(s, <<>>, <<>>)

\* The characters str.isdigit() accepts: the decimal digits and, as one of
\* the digits that are no decimal digit, SUPERSCRIPT TWO.
IsDecimalChar(c) == c \in 48..57
IsDigitChar(c) == IsDecimalChar(c) \/ c = 178

\* parts[1].isdigit()
IsDigit(tok) == tok # <<>> /\ \A i \in 1..Len(tok) : IsDigitChar(tok[i])

\* int(parts[1]) raises ValueError on a digit that is no decimal digit
IntRaises(tok) == \E i \in 1..Len(tok) : ~IsDecimalChar(tok[i])

RECURSIVE IntFrom(_, _)
IntFrom(tok, acc) ==
    IF tok = <<>> THEN acc ELSE IntFrom(Tail(tok), 10 * acc + (Head(tok) - 48))

\* int(parts[1])
IntOf(tok) == IntFrom(tok, 0)

Min(a, b) == IF a < b THEN a ELSE b
Max(a, b) == IF a > b THEN a ELSE b

\* Variant of Clamp without the upper bound, against which C7 is checked.
Clamp_NoUpper(freq) == Max(0, freq)

\* max(0, min(255, freq))
Clamp(freq) == Max(0, Min(255, freq))

KeyIndex(d, k) ==
    IF \E i \in 1..Len(d) : d[i].word = k
    THEN CHOOSE i \in 1..Len(d) : d[i].word = k
    ELSE 0

\* words[word] = v: an existing key keeps its place, a new one goes last
DictSet(d, k, v) ==
    IF KeyIndex(d, k) # 0
    THEN [d EXCEPT ![KeyIndex(d, k)].freq = v]
    ELSE Append(d, [word |-> k, freq |-> v])

\* the frequency line 52 computes for the parts of a line
LineFreq(parts, n) ==
    IF Len(parts) > 1 /\ IsDigit(parts[2]) THEN IntOf(parts[2]) ELSE 1000 + n

Skipped(raw) == Strip(raw) = <<>> \/ Head(Strip(raw)) = 35

Parts(raw) == Split(ReplaceSeps(Strip(raw)))

\* One iteration of `for raw in f` that reaches line 47.
ParseLine ==
    /\ pc = "parse"
    /\ lines # <<>>
    /\ count < max_words
    /\ lines' = Tail(lines)
    /\ LET raw == Head(lines)
           parts == Parts(raw)
       IN IF Skipped(raw)
          THEN UNCHANGED <<pc, err, count, words>>
          ELSE IF parts = <<>>
          THEN /\ pc' = "error"
               /\ err' = "IndexError"
               /\ UNCHANGED <<count, words>>
          ELSE IF Len(parts) > 1 /\ IsDigit(parts[2]) /\ IntRaises(parts[2])
          THEN /\ pc' = "error"
               /\ err' = "ValueError"
               /\ UNCHANGED <<count, words>>
          ELSE /\ words' = DictSet(words, parts[1], Clamp(LineFreq(parts, count)))
               /\ count' = count + 1
               /\ UNCHANGED <<pc, err>>
    /\ UNCHANGED <<wordIdx, trie, nodes, queue, current_offset, out, wi, limit>>

\* The loop ends (the file is exhausted, or count reached max_words) and
\* parse_words returns; compile_language calls build_trie.
ParseReturn ==
    /\ pc = "parse"
    /\ lines = <<>> \/ count >= max_words
    /\ pc' = "call"
    /\ UNCHANGED <<err, lines, count, words, wordIdx, trie, nodes, queue,
                   current_offset, out, wi, limit>>

----------------------------------------------------------------------------
(* build_trie *)

\* node.children.get(ch): the child of `node` keyed by ch, or None
ChildOf(t, node, ch) ==
    LET cs == t[node].children
    IN IF \E i \in 1..Len(cs) : t[cs[i]].char = ch
       THEN cs[CHOOSE i \in 1..Len(cs) : t[cs[i]].char = ch]
       ELSE None

\* node = node.children.setdefault(ch, TrieNode(ch, node)) for each ch of
\* word, then node.freq = freq
RECURSIVE InsertFrom(_, _, _, _)
InsertFrom(t, node, word, freq) ==
    IF word = <<>> THEN [t EXCEPT ![node].freq = freq]
    ELSE LET ch == Head(word)
             old == ChildOf(t, node, ch)
             new == Len(t) + 1
         IN IF old # None
            THEN InsertFrom(t, old, Tail(word), freq)
            ELSE InsertFrom(
                     Append([t EXCEPT ![node].children = Append(@, new)],
                            TrieNode(ch, node)),
                     new, Tail(word), freq)

\* Variant of InsertSorted that sorts in descending order, against which C9
\* is checked.
RECURSIVE InsertSorted_Descending(_, _, _)
InsertSorted_Descending(t, s, x) ==
    IF s = <<>> THEN <<x>>
    ELSE IF t[x].char > t[Head(s)].char THEN <<x>> \o s
    ELSE <<Head(s)>> \o InsertSorted_Descending(t, Tail(s), x)

\* sorted(seq, key=lambda n: n.char): a stable insertion sort
RECURSIVE InsertSorted(_, _, _)
InsertSorted(t, s, x) ==
    IF s = <<>> THEN <<x>>
    ELSE IF t[x].char < t[Head(s)].char THEN <<x>> \o s
    ELSE <<Head(s)>> \o InsertSorted(t, Tail(s), x)

RECURSIVE SortedFrom(_, _, _)
SortedFrom(t, s, acc) ==
    IF s = <<>> THEN acc ELSE SortedFrom(t, Tail(s), InsertSorted(t, acc, Head(s)))

\* Variant of SortedChildren that keeps the dict's order, against which C8
\* is checked.
SortedChildren_Unsorted(t, node) == t[node].children

\* children = sorted(node.children.values(), key=lambda n: n.char)
SortedChildren(t, node) == SortedFrom(t, t[node].children, <<>>)

PosIn(s, x) == IF \E i \in 1..Len(s) : s[i] = x
               THEN CHOOSE i \in 1..Len(s) : s[i] = x
               ELSE 0

\* Variant of Link that also links the last child back to the first,
\* against which C4 is checked.
Link_Circular(t, node, children) ==
    [i \in 1..Len(t) |->
        IF i = node /\ children # <<>>
        THEN [t[i] EXCEPT !.first_child = children[1]]
        ELSE IF PosIn(children, i) \in 1..Len(children)
        THEN [t[i] EXCEPT !.next_sibling =
                 children[(PosIn(children, i) % Len(children)) + 1]]
        ELSE t[i]]

\* lines 80-83: node.first_child = children[0]; left.next_sibling = right
\* for each adjacent pair of children
Link(t, node, children) ==
    [i \in 1..Len(t) |->
        IF i = node /\ children # <<>>
        THEN [t[i] EXCEPT !.first_child = children[1]]
        ELSE IF PosIn(children, i) \in 1..(Len(children) - 1)
        THEN [t[i] EXCEPT !.next_sibling = children[PosIn(children, i) + 1]]
        ELSE t[i]]

\* Variants of OverLimit: the limit itself refused (against which C2 is
\* checked), and no test at all (against which C5 is checked).
OverLimit_Inclusive(offset) == offset >= limit
OverLimit_Never(offset) == FALSE

\* the test of line 72
OverLimit(offset) == offset > limit

\* Variant of Enqueue that leaves the first child out, against which C10 is
\* checked.
Enqueue_DropFirst(q, children) ==
    Tail(q) \o (IF children = <<>> THEN <<>> ELSE Tail(children))

\* queue.popleft() followed by queue.extend(children)
Enqueue(q, children) == Tail(q) \o children

\* compile_language calls build_trie: root = TrieNode("^")
CallBuildTrie ==
    /\ pc = "call"
    /\ trie' = <<TrieNode(94, None)>>
    /\ wordIdx' = 1
    /\ pc' = "insert"
    /\ UNCHANGED <<err, lines, count, words, nodes, queue, current_offset,
                   out, wi, limit>>

\* one iteration of `for word, freq in words.items()`
InsertWord ==
    /\ pc = "insert"
    /\ wordIdx <= Len(words)
    /\ trie' = InsertFrom(trie, 1, words[wordIdx].word, words[wordIdx].freq)
    /\ wordIdx' = wordIdx + 1
    /\ UNCHANGED <<pc, err, lines, count, words, nodes, queue, current_offset,
                   out, wi, limit>>

\* lines 66-68, once every word is inserted
StartBfs ==
    /\ pc = "insert"
    /\ wordIdx > Len(words)
    /\ nodes' = <<>>
    /\ queue' = <<1>>
    /\ current_offset' = 0
    /\ pc' = "bfs"
    /\ UNCHANGED <<err, lines, count, words, wordIdx, trie, out, wi, limit>>

\* one iteration of `while queue`
BfsStep ==
    /\ pc = "bfs"
    /\ queue # <<>>
    /\ LET node == Head(queue)
           children == SortedChildren(trie, node)
       IN IF OverLimit(current_offset)
          THEN /\ pc' = "error"
               /\ err' = "capacity"
               /\ queue' = Tail(queue)
               /\ UNCHANGED <<trie, nodes, current_offset>>
          ELSE /\ trie' = Link([trie EXCEPT ![node].offset = current_offset],
                               node, children)
               /\ nodes' = Append(nodes, node)
               /\ current_offset' = current_offset + NODE_SIZE
               /\ queue' = Enqueue(queue, children)
               /\ UNCHANGED <<pc, err>>
    /\ UNCHANGED <<lines, count, words, wordIdx, out, wi, limit>>

\* the queue is empty: build_trie returns nodes and compile_language calls
\* write_bin, which opens out_file for writing
ReturnNodes ==
    /\ pc = "bfs"
    /\ queue = <<>>
    /\ pc' = "write"
    /\ out' = <<>>
    /\ wi' = 1
    /\ UNCHANGED <<err, lines, count, words, wordIdx, trie, nodes, queue,
                   current_offset, limit>>

----------------------------------------------------------------------------
(* write_bin *)

\* The result of computing one f.write argument: the bytes, or the raise.
Bytes(bs) == [ok |-> TRUE, bytes |-> bs]
Raise == [ok |-> FALSE, bytes |-> <<>>]

\* struct.pack(">H", v)
PackH(v) == IF v \in 0..65535 THEN Bytes(<<v \div 256, v % 256>>) ELSE Raise

\* struct.pack(">B", v)
PackB(v) == IF v \in 0..255 THEN Bytes(<<v>>) ELSE Raise

\* Variant of Uint24 that emits the low byte first, against which C1 is
\* checked.
Uint24_LittleEndian(value) ==
    IF value < 0 \/ value > limit THEN Raise
    ELSE Bytes(<<value % 256, (value \div 256) % 256, (value \div 65536) % 256>>)

\* _uint24
Uint24(value) ==
    IF value < 0 \/ value > limit THEN Raise
    ELSE Bytes(<<(value \div 65536) % 256, (value \div 256) % 256, value % 256>>)

\* node.first_child.offset if node.first_child else 0
RefOffset(t, ref) == IF ref # None THEN t[ref].offset ELSE 0

\* the arguments of the five f.write calls of lines 93-97, in order
Fields(t, node) ==
    << PackH(t[node].char),
       PackB(t[node].freq),
       Uint24(RefOffset(t, t[node].first_child)),
       Uint24(RefOffset(t, t[node].next_sibling)),
       Bytes(<<0>>) >>

\* what the writes of `fields` put in the file: each is written unless
\* computing it, or an earlier one, raised
RECURSIVE Emitted(_)
Emitted(fields) ==
    IF fields = <<>> \/ ~Head(fields).ok THEN <<>>
    ELSE Head(fields).bytes \o Emitted(Tail(fields))

Raised(fields) == \E i \in 1..Len(fields) : ~fields[i].ok

\* one iteration of `for node in nodes`; after the last one the file is
\* closed and compile_language returns
WriteNode ==
    /\ pc = "write"
    /\ wi <= Len(nodes)
    /\ LET fields == Fields(trie, nodes[wi])
       IN /\ out' = out \o Emitted(fields)
          /\ IF Raised(fields)
             THEN /\ pc' = "error"
                  /\ err' = "encoding"
                  /\ UNCHANGED wi
             ELSE /\ wi' = wi + 1
                  /\ pc' = IF wi = Len(nodes) THEN "done" ELSE "write"
                  /\ UNCHANGED err
    /\ UNCHANGED <<lines, count, words, wordIdx, trie, nodes, queue,
                   current_offset, limit>>

----------------------------------------------------------------------------
(* compile_language *)

Init ==
    /\ limit \in {MAX_OFFSET, SmallMaxOffset}
    /\ \/ /\ pc = "parse"
          /\ lines \in Files
          /\ words = <<>>
       \/ /\ pc = "call"
          /\ lines = <<>>
          /\ words \in Tables
    /\ err = ""
    /\ count = 0
    /\ wordIdx = 0
    /\ trie = <<>>
    /\ nodes = <<>>
    /\ queue = <<>>
    /\ current_offset = 0
    /\ out = <<>>
    /\ wi = 0

Next ==
    \/ ParseLine
    \/ ParseReturn
    \/ CallBuildTrie
    \/ InsertWord
    \/ StartBfs
    \/ BfsStep
    \/ ReturnNodes
    \/ WriteNode

Spec == Init /\ [][Next]_vars

----------------------------------------------------------------------------
(* What a word table determines, whatever the order of its entries *)

\* the (word, frequency) entries of the table
Entries == { <<words[i].word, words[i].freq>> : i \in 1..Len(words) }

\* the distinct non-empty prefixes of the table's words
Prefixes ==
    UNION { { SubSeq(e[1], 1, k) : k \in 1..Len(e[1]) } : e \in Entries }

\* N: the root plus one node per distinct non-empty prefix
NodeCount == 1 + Cardinality(Prefixes)

\* 10 * (N - 1) > MAX_OFFSET
TooBig == NODE_SIZE * (NodeCount - 1) > limit

\* every frequency fits a byte and every character 16 bits
Encodable ==
    \A e \in Entries :
        /\ e[2] \in 0..255
        /\ \A k \in 1..Len(e[1]) : e[1][k] \in 0..65535

\* build_trie has been called: `words` is the table it was given
Called ==
    \/ pc \in {"call", "insert", "bfs", "write", "done"}
    \/ err \in {"capacity", "encoding"}

\* build_trie has returned its node list
Returned == pc \in {"write", "done"} \/ err = "encoding"

\* the word a node stands for: the characters from the root down to it
RECURSIVE PathOf(_, _)
PathOf(t, n) ==
    IF t[n].parent = None THEN <<>>
    ELSE Append(PathOf(t, t[n].parent), t[n].char)

----------------------------------------------------------------------------
(* Reading the output back: the fields of the record at byte offset off *)

RecChar(b, off) == b[off + 1] * 256 + b[off + 2]
RecFreq(b, off) == b[off + 3]
RecChild(b, off) == b[off + 4] * 65536 + b[off + 5] * 256 + b[off + 6]
RecSibling(b, off) == b[off + 7] * 65536 + b[off + 8] * 256 + b[off + 9]

\* what a decoder reports when a link leaves the buffer or never ends
Corrupt == << <<>>, -1 >>

\* The words under the record at `off` and under its later siblings, `path`
\* being the word of their parent: every record whose freq byte is >= 1 is
\* reported with the characters leading to it. `fuel` bounds the walk.
RECURSIVE DecodeChain(_, _, _, _)
DecodeChain(b, off, path, fuel) ==
    IF off = 0 THEN {}
    ELSE IF fuel = 0 \/ off + NODE_SIZE > Len(b) THEN {Corrupt}
    ELSE LET p == Append(path, RecChar(b, off))
         IN (IF RecFreq(b, off) >= 1 THEN {<<p, RecFreq(b, off)>>} ELSE {})
            \cup DecodeChain(b, RecChild(b, off), p, fuel - 1)
            \cup DecodeChain(b, RecSibling(b, off), path, fuel - 1)

\* the decoder of the round trip: from offset 0, the non-root records
DecodeNonRoot(b) == DecodeChain(b, RecChild(b, 0), <<>>, Len(b) \div NODE_SIZE)

\* the same decoder reporting the root record too (its path is the empty word)
DecodeAll(b) ==
    (IF RecFreq(b, 0) >= 1 THEN {<< <<>>, RecFreq(b, 0) >>} ELSE {})
    \cup DecodeNonRoot(b)

\* the entries of the table a decoder can tell from a prefix node
Positive == { e \in Entries : e[2] >= 1 }

----------------------------------------------------------------------------
(* C1 *)

----------------------------------------------------------------------------
(* C2 *)

\* build_trie and write_bin went through, or still can take their next
\* step, and the finished output is 10 * N bytes (one root record for the
\* empty table)
Succeeds ==
    /\ pc # "error"
    /\ pc # "done" => ENABLED Next
    /\ pc = "done" => Len(out) = NODE_SIZE * NodeCount
    /\ (pc = "done" /\ words = <<>>) => out = <<0, 94, 0, 0, 0, 0, 0, 0, 0, 0>>

\* C2, as stated: for any word table whose trie has N nodes with
\* 10 * (N - 1) <= MAX_OFFSET, build_trie followed by write_bin succeeds and
\* the output is exactly 10 * N bytes; the empty table yields one 10-byte
\* root record.
C2_AnyTableSucceeds == (Called /\ ~TooBig) => Succeeds

\* C2, amended: the same, for the word tables whose frequencies are in
\* [0, 255] and whose characters have codes of at most 16 bits.
C2_EncodableTableSucceeds == (Called /\ ~TooBig /\ Encodable) => Succeeds

\* a 5-node trie under a limit of 40: 10 * (N - 1) is the limit itself
C2_Witness ==
    /\ pc = "done"
    /\ Encodable
    /\ NodeCount = 5
    /\ NODE_SIZE * (NodeCount - 1) = limit
    /\ Len(out) = 50

----------------------------------------------------------------------------
(* C3 *)

\* C3: once build_trie has returned, the first node of the list has offset
\* 0, frequency 0 and the sentinel character "^", and no other node of the
\* list carries that character.
C3_RootInvariant ==
    Returned =>
        /\ nodes # <<>>
        /\ trie[nodes[1]].parent = None
        /\ trie[nodes[1]].offset = 0
        /\ trie[nodes[1]].freq = 0
        /\ trie[nodes[1]].char = 94
        /\ \A i \in 2..Len(nodes) : trie[nodes[i]].char # 94

----------------------------------------------------------------------------
(* C4 *)

\* the child of `parent` that comes last in character order
IsLastChild(t, n) ==
    /\ t[n].parent # None
    /\ \A k \in 1..Len(t[t[n].parent].children) :
           t[t[t[n].parent].children[k]].char <= t[n].char

\* the records of `out` that are complete: record i is that of nodes[i]
Written == 1..(Len(out) \div NODE_SIZE)

\* C4: in the output, a node with no children encodes first_child 0, the
\* last child in sorted order of every node encodes next_sibling 0, the root
\* encodes next_sibling 0, and no non-root node is at offset 0: an encoded 0
\* is never the offset of a real child or sibling, which are encoded by
\* their own, non-zero, offsets.
C4_SentinelCorrectness ==
    /\ \A i \in 1..Len(nodes) :
           trie[nodes[i]].offset = 0 <=> trie[nodes[i]].parent = None
    /\ \A i \in Written :
           LET n == nodes[i]
               off == NODE_SIZE * (i - 1)
           IN /\ trie[n].children = <<>> <=> RecChild(out, off) = 0
              /\ trie[n].parent = None => RecSibling(out, off) = 0
              /\ trie[n].parent # None =>
                     (IsLastChild(trie, n) <=> RecSibling(out, off) = 0)
              /\ RecChild(out, off) # 0 =>
                     /\ RecChild(out, off) \div NODE_SIZE + 1 \in 1..Len(nodes)
                     /\ trie[nodes[RecChild(out, off) \div NODE_SIZE + 1]].parent = n
              /\ RecSibling(out, off) # 0 =>
                     /\ RecSibling(out, off) \div NODE_SIZE + 1 \in 1..Len(nodes)
                     /\ trie[nodes[RecSibling(out, off) \div NODE_SIZE + 1]].parent
                            = trie[n].parent

\* all six records of a trie with a node of three children are written
C4_Witness ==
    /\ pc = "done"
    /\ Len(out) = 60
    /\ \E i \in 1..Len(nodes) : Len(trie[nodes[i]].children) = 3
    /\ \E i \in 1..Len(nodes) : trie[nodes[i]].children = <<>>

----------------------------------------------------------------------------
(* C5 *)

\* C5: build_trie fails with the capacity error exactly when the trie has N
\* nodes with 10 * (N - 1) > MAX_OFFSET: the step that dequeues a node while
\* the offset counter exceeds the limit can only raise it, after it no byte
\* is written (write_bin is never reached), and for a smaller trie it is
\* never raised and build_trie returns.
C5_CapacityError ==
    /\ err = "capacity" =>
           /\ pc = "error"
           /\ TooBig
           /\ out = <<>>
           /\ wi = 0
    /\ Returned => ~TooBig
    /\ (pc = "bfs" /\ queue # <<>> /\ current_offset > limit) =>
           ~ENABLED (Next /\ err' # "capacity")
    /\ (pc = "bfs" /\ ~TooBig) => ENABLED (Next /\ err' = "")

\* five nodes are laid out at offsets 0..40 and the sixth meets the counter
\* at 50 > 40
C5_Witness ==
    /\ err = "capacity"
    /\ Len(nodes) = 5
    /\ current_offset = 50
    /\ NodeCount = 6

----------------------------------------------------------------------------
(* C6 *)

\* C6: when write_bin fails on a field out of its range, no byte of that
\* node's record has been emitted: the bytes written are whole records.
C6_NoPartialRecord == err = "encoding" => Len(out) % NODE_SIZE = 0

----------------------------------------------------------------------------
(* C7 *)

\* a purely numeric token, and its value
Numeric(tok) == tok # <<>> /\ \A i \in 1..Len(tok) : tok[i] \in 48..57

RECURSIVE Pow10(_)
Pow10(n) == IF n = 0 THEN 1 ELSE 10 * Pow10(n - 1)

RECURSIVE Value(_)
Value(tok) ==
    IF tok = <<>> THEN 0
    ELSE (Head(tok) - 48) * Pow10(Len(tok) - 1) + Value(Tail(tok))

\* the frequency C7 expects for a line: min(255, v) for a numeric token v,
\* 255 for an absent or non-numeric one
Expected(parts) ==
    IF Len(parts) > 1 /\ Numeric(parts[2])
    THEN (IF Value(parts[2]) > 255 THEN 255 ELSE Value(parts[2]))
    ELSE 255

\* a line parse_words accepts: neither blank nor a comment, holding a word,
\* its token (if any) not one int() rejects
AcceptedLine(raw) ==
    /\ ~Skipped(raw)
    /\ Parts(raw) # <<>>
    /\ (Len(Parts(raw)) > 1 /\ IsDigit(Parts(raw)[2])) => Numeric(Parts(raw)[2])

\* the table was parsed from a file
FromFile == count > 0

\* the stored frequency of the word ending at node n (0 when none does)
Stored(n) ==
    IF \E e \in Entries : e[1] = PathOf(trie, n)
    THEN (CHOOSE e \in Entries : e[1] = PathOf(trie, n))[2]
    ELSE 0

\* every frequency of a parsed table is in [0, 255]
C7_StoredInRange == FromFile => \A e \in Entries : e[2] \in 0..255

\* the step of parse_words on an accepted line does not fail and stores the
\* expected frequency under the line's word
C7_LineStored ==
    (pc = "parse" /\ lines # <<>> /\ count < max_words
         /\ AcceptedLine(Head(lines)) /\ lines' = Tail(lines)) =>
        /\ pc' = "parse"
        /\ count' = count + 1
        /\ <<Parts(Head(lines))[1], Expected(Parts(Head(lines)))>>
               \in { <<words'[i].word, words'[i].freq>> : i \in 1..Len(words') }

\* every freq byte written for a parsed table is the stored value
C7_BytesStored ==
    FromFile =>
        \A i \in Written :
            /\ RecFreq(out, NODE_SIZE * (i - 1)) \in 0..255
            /\ RecFreq(out, NODE_SIZE * (i - 1)) = Stored(nodes[i])

----------------------------------------------------------------------------
(* C8 *)

\* The layout a table determines. A node is a prefix (the root the empty
\* one); breadth-first order with siblings in character order is the order
\* of the prefixes by length and, at equal length, by character codes.
AllPrefixes == Prefixes \cup {<<>>}

Before(p, q) ==
    \/ Len(p) < Len(q)
    \/ /\ Len(p) = Len(q)
       /\ \E k \in 1..Len(p) :
              /\ p[k] < q[k]
              /\ \A j \in 1..(k - 1) : p[j] = q[j]

OffsetOf(p) == NODE_SIZE * Cardinality({ q \in AllPrefixes : Before(q, p) })

ChildrenOf(p) ==
    { q \in Prefixes : Len(q) = Len(p) + 1 /\ SubSeq(q, 1, Len(p)) = p }

LaterSiblings(p) ==
    IF p = <<>> THEN {}
    ELSE { q \in ChildrenOf(SubSeq(p, 1, Len(p) - 1)) : q[Len(q)] > p[Len(p)] }

\* the offset of the first of a set of sibling prefixes, 0 for none
FirstOf(S) ==
    IF S = {} THEN 0
    ELSE OffsetOf(CHOOSE q \in S : \A r \in S : r = q \/ Before(q, r))

FreqOf(p) ==
    IF \E e \in Entries : e[1] = p
    THEN (CHOOSE e \in Entries : e[1] = p)[2]
    ELSE 0

RecordOf(p) ==
    LET ch == IF p = <<>> THEN 94 ELSE p[Len(p)]
        fc == FirstOf(ChildrenOf(p))
        ns == FirstOf(LaterSiblings(p))
    IN << ch \div 256, ch % 256, FreqOf(p),
          fc \div 65536, (fc \div 256) % 256, fc % 256,
          ns \div 65536, (ns \div 256) % 256, ns % 256, 0 >>

TableBytes ==
    [i \in 1..(NODE_SIZE * Cardinality(AllPrefixes)) |->
        RecordOf(CHOOSE p \in AllPrefixes :
                     OffsetOf(p) = NODE_SIZE * ((i - 1) \div NODE_SIZE))
            [((i - 1) % NODE_SIZE) + 1]]

\* C8: the output is a function of the (word -> frequency) mapping alone:
\* whatever the order in which the entries were inserted, build_trie and
\* write_bin produce the bytes the set of entries determines, so two
\* compilations of a table, in any two insertion orders, agree byte for byte.
C8_Determinism == pc = "done" => out = TableBytes

\* "cat", "can", "car" inserted in that order: not the order of the layout
C8_Witness ==
    /\ pc = "done"
    /\ Len(words) = 3
    /\ words[1].word = <<99, 97, 116>>
    /\ words[2].word = <<99, 97, 110>>
    /\ words[3].word = <<99, 97, 114>>
    /\ trie[3].children = <<4, 5, 6>>
    /\ nodes = <<1, 2, 3, 5, 6, 4>>

----------------------------------------------------------------------------
(* C9 *)

\* the nodes met from n along next_sibling, at most `fuel` of them
RECURSIVE ChainFrom(_, _, _)
ChainFrom(t, n, fuel) ==
    IF n = None \/ fuel = 0 THEN <<>>
    ELSE <<n>> \o ChainFrom(t, t[n].next_sibling, fuel - 1)

\* the chain of the children of n
ChildChain(n) == ChainFrom(trie, trie[n].first_child, Len(trie) + 1)

ElemsOf(s) == { s[k] : k \in 1..Len(s) }

\* C9: after build_trie returns, for every node of the list, the chain from
\* its first_child along next_sibling visits each of its children exactly
\* once, in strictly ascending character code, and ends at none; first_child
\* is none exactly when the node has no children. For {cat: 50, car: 30,
\* can: 10} the trie has 6 nodes and the chain of the node of "ca" is "n",
\* "r", "t" with frequencies 10, 30, 50.
C9_SiblingLinkage ==
    Returned =>
        /\ ElemsOf(nodes) = 1..Len(trie)
        /\ \A n \in ElemsOf(nodes) :
               /\ Len(ChildChain(n)) = Len(trie[n].children)
               /\ ElemsOf(ChildChain(n)) = ElemsOf(trie[n].children)
               /\ \A k \in 1..(Len(ChildChain(n)) - 1) :
                      trie[ChildChain(n)[k]].char < trie[ChildChain(n)[k + 1]].char
               /\ trie[n].first_child = None <=> trie[n].children = <<>>
        /\ Entries = { << <<99, 97, 116>>, 50 >>, << <<99, 97, 114>>, 30 >>,
                       << <<99, 97, 110>>, 10 >> } =>
               /\ Len(nodes) = 6
               /\ \A n \in ElemsOf(nodes) :
                      PathOf(trie, n) = <<99, 97>> =>
                          /\ [k \in 1..3 |-> trie[ChildChain(n)[k]].char]
                                 = <<110, 114, 116>>
                          /\ [k \in 1..3 |-> trie[ChildChain(n)[k]].freq]
                                 = <<10, 30, 50>>

\* the example, its words inserted in the order cat, car, can
C9_Witness ==
    /\ pc = "write"
    /\ words = << [word |-> <<99, 97, 116>>, freq |-> 50],
                  [word |-> <<99, 97, 114>>, freq |-> 30],
                  [word |-> <<99, 97, 110>>, freq |-> 10] >>
    /\ ChildChain(3) = <<6, 5, 4>>

----------------------------------------------------------------------------
(* C10 *)

\* the node's offset has been computed: it is in the list
PlacedIn(ns, n) == \E i \in 1..Len(ns) : ns[i] = n

\* the references a step of the breadth-first pass sets
SetRefs ==
    IF pc = "bfs" /\ pc' = "bfs" /\ Len(trie') = Len(trie)
    THEN { trie'[n].first_child :
               n \in { m \in 1..Len(trie) :
                           trie'[m].first_child # trie[m].first_child } }
         \cup
         { trie'[n].next_sibling :
               n \in { m \in 1..Len(trie) :
                           trie'[m].next_sibling # trie[m].next_sibling } }
    ELSE {}

C10_ResolvedOnReturn ==
    Returned =>
        \A i \in 1..Len(nodes) :
            /\ trie[nodes[i]].offset = NODE_SIZE * (i - 1)
            /\ \A r \in {trie[nodes[i]].first_child, trie[nodes[i]].next_sibling} :
                   r # None =>
                       /\ PlacedIn(nodes, r)
                       /\ trie[r].offset > trie[nodes[i]].offset

====
